---- MODULE Spec2Model ----
(***************************************************************************)
(* A model of the trail of reversible-rs: the reversible context           *)
(* (src/src/context.rs, struct Trail) and the reversible scalar built on   *)
(* it (src/src/reversible.rs, struct Reversible).                          *)
(*                                                                         *)
(* The library is single threaded and every method runs to completion, so  *)
(* each public method is one atomic action.  A restoration closure         *)
(*     Box::new(move || dst.set(val))                                      *)
(* is the record [dst, val]: dst names the shared Rc<Cell<T>>, val is the  *)
(* captured value.  The fields `at` and `cp` of a log entry are history     *)
(* fields (the trail clock at which the closure was pushed, and the        *)
(* checkpoint that was innermost then); no operation reads them.           *)
(***************************************************************************)
EXTENDS Integers, Sequences, FiniteSets, TLC

(* ------------------------------ bounds --------------------------------- *)
\* the trail clock is a usize; the model stops before it reaches MaxClock
MaxClock == 4
\* at most MaxLevel nested checkpoints are opened
MaxLevel == 2
\* the log (a Vec) holds at most MaxTrail closures
MaxTrail == 2

\* the Reversible objects of the model, and the values they take
Cells  == {"A", "B"}
Values == {0, 1}

VARIABLES
    clock,       \* Trail.clock
    trail,       \* Trail.trail : the log of restoration closures
    limit,       \* Trail.limit : the log length at each open checkpoint
    created,     \* the Reversible objects constructed so far
    cell_clock,  \* Reversible.clock of each object
    value,       \* Reversible.value of each object (the shared Cell<T>)
    op,          \* history: the last method called
    young,       \* history: the objects constructed since the latest clock tick
    snap,        \* history: per open checkpoint, the cells and values at its push
    base,        \* history: each cell's value at the latest clock tick or creation
    nwrites,     \* history: value-changing writes to each cell since then
                 \*          (0, 1, or 2 for "two or more")
    ran          \* history: the closures executed so far, as [dst, at]
                 \*          (recorded by SpecOnce only)

prog == <<clock, trail, limit, created, cell_clock, value>>
vars == <<clock, trail, limit, created, cell_clock, value, op, young, snap, base, nwrites, ran>>

(* ------------------------- the methods, as functions ------------------- *)
\* The part of the state the methods of Trail and Reversible read and write.
\* `undone` and `cp` are history fields: the closures a call has executed, in
\* order, and the innermost open checkpoint, named by the clock its push set
\* (0 when no checkpoint is open).
Heap == [clock |-> clock, trail |-> trail, limit |-> limit,
         cell_clock |-> cell_clock, value |-> value, undone |-> <<>>,
         cp |-> IF snap = <<>> THEN 0 ELSE snap[Len(snap)].clk]

Front(s) == SubSeq(s, 1, Len(s) - 1)

level(h) == Len(h.limit)

push_on_trail(h, entry) == [h EXCEPT !.trail = Append(@, entry)]

\* faulty variant: the clock is recorded as the boundary (self.limit.push(self.clock))
push_clock(h) == [h EXCEPT !.clock = @ + 1, !.limit = Append(@, h.clock)]

push(h) == [h EXCEPT !.clock = @ + 1, !.limit = Append(@, Len(h.trail))]

\* the closure `move || dst.set(val)` called
call(h, entry) == [h EXCEPT !.value[entry.dst] = entry.val,
                            !.undone = Append(@, entry)]

\* faulty variant: the closures are dropped, not called
unwind_drop(h, sz) == [h EXCEPT !.trail = SubSeq(@, 1, sz)]

\* faulty variant: the closures are called oldest first
RECURSIVE unwind_fifo(_, _)
unwind_fifo(h, sz) ==
    IF Len(h.trail) > sz
    THEN unwind_fifo(call([h EXCEPT !.trail = SubSeq(@, 1, sz) \o SubSeq(@, sz + 2, Len(@))],
                          h.trail[sz + 1]), sz)
    ELSE h

\* faulty variant: `if` for `while`, one closure at most is called
unwind_once(h, sz) ==
    IF Len(h.trail) > sz
    THEN call([h EXCEPT !.trail = Front(@)], h.trail[Len(h.trail)])
    ELSE h

\* faulty variant: the closure is called where it is (self.trail.last_mut())
\* and again when it is popped
RECURSIVE unwind_twice(_, _)
unwind_twice(h, sz) ==
    IF Len(h.trail) > sz
    THEN unwind_twice(call(call([h EXCEPT !.trail = Front(@)], h.trail[Len(h.trail)]),
                           h.trail[Len(h.trail)]), sz)
    ELSE h

\* while self.trail.len() > sz { self.trail.pop().unwrap()(); }
RECURSIVE unwind(_, _)
unwind(h, sz) ==
    IF Len(h.trail) > sz
    THEN unwind(call([h EXCEPT !.trail = Front(@)], h.trail[Len(h.trail)]), sz)
    ELSE h

\* faulty variant: without a checkpoint nothing is undone (unwrap_or(self.trail.len()))
pop_keep(h) ==
    LET sz == IF h.limit = <<>> THEN Len(h.trail) ELSE h.limit[Len(h.limit)]
        h1 == [h EXCEPT !.limit = IF @ = <<>> THEN @ ELSE Front(@)]
        h2 == unwind(h1, sz)
    IN  [h2 EXCEPT !.clock = @ + 1]

\* faulty variant: the clock advances only when a checkpoint was open
pop_tick_if_open(h) ==
    LET sz == IF h.limit = <<>> THEN 0 ELSE h.limit[Len(h.limit)]
        h1 == [h EXCEPT !.limit = IF @ = <<>> THEN @ ELSE Front(@)]
        h2 == unwind(h1, sz)
    IN  [h2 EXCEPT !.clock = IF h.limit = <<>> THEN @ ELSE @ + 1]

\* faulty variant: every boundary is dropped (self.limit.clear())
pop_clear(h) ==
    LET sz == IF h.limit = <<>> THEN 0 ELSE h.limit[Len(h.limit)]
        h1 == [h EXCEPT !.limit = <<>>]
        h2 == unwind(h1, sz)
    IN  [h2 EXCEPT !.clock = @ + 1]

\* faulty variant: the loop's test is `>=`, the entry just below the boundary
\* is executed too
pop_below(h) ==
    LET sz == IF h.limit = <<>> THEN 0 ELSE h.limit[Len(h.limit)]
        h1 == [h EXCEPT !.limit = IF @ = <<>> THEN @ ELSE Front(@)]
        h2 == unwind(h1, IF sz > 0 THEN sz - 1 ELSE 0)
    IN  [h2 EXCEPT !.clock = @ + 1]

\* faulty variant: `if` for `while`, one closure at most is executed
pop_one(h) ==
    LET sz == IF h.limit = <<>> THEN 0 ELSE h.limit[Len(h.limit)]
        h1 == [h EXCEPT !.limit = IF @ = <<>> THEN @ ELSE Front(@)]
        h2 == IF Len(h1.trail) > sz
              THEN call([h1 EXCEPT !.trail = Front(@)], h1.trail[Len(h1.trail)])
              ELSE h1
    IN  [h2 EXCEPT !.clock = @ + 1]

pop(h) ==
    LET sz == IF h.limit = <<>> THEN 0 ELSE h.limit[Len(h.limit)]
        h1 == [h EXCEPT !.limit = IF @ = <<>> THEN @ ELSE Front(@)]
        h2 == unwind(h1, sz)
    IN  [h2 EXCEPT !.clock = @ + 1]

\* faulty variant: `if` for `while`, one checkpoint at most is popped
pop_until_if(h, lvl) == IF level(h) > lvl THEN pop(h) ELSE h

RECURSIVE pop_until(_, _)
pop_until(h, lvl) == IF level(h) > lvl THEN pop_until(pop(h), lvl) ELSE h

\* faulty variant: one checkpoint is popped, not all
pop_all_once(h) == pop(h)

pop_all(h) == pop_until(h, 0)

\* faulty variant: the cell's clock starts at 0 (clock: 0)
new_zero(h, c, initial) == [h EXCEPT !.cell_clock[c] = 0, !.value[c] = initial]

\* Reversible::new: the clock of the trail is copied, the value is stored
new(h, c, initial) == [h EXCEPT !.cell_clock[c] = h.clock, !.value[c] = initial]

\* faulty variant: self.clock is not updated
Reversible_trail_stale(h, c) ==
    LET trail_time == h.clock IN
    IF trail_time # h.cell_clock[c]
    THEN push_on_trail(h, [dst |-> c, val |-> h.value[c], at |-> trail_time, cp |-> h.cp])
    ELSE h

\* faulty variant: the closure is pushed at every call
Reversible_trail_always(h, c) ==
    push_on_trail([h EXCEPT !.cell_clock[c] = h.clock],
                  [dst |-> c, val |-> h.value[c], at |-> h.clock, cp |-> h.cp])

\* faulty variant: the test is `==`, the closure is pushed when the cell's
\* clock is the trail's
Reversible_trail_eq(h, c) ==
    LET trail_time == h.clock IN
    IF trail_time = h.cell_clock[c]
    THEN push_on_trail([h EXCEPT !.cell_clock[c] = trail_time],
                       [dst |-> c, val |-> h.value[c], at |-> trail_time, cp |-> h.cp])
    ELSE h

\* faulty variant: the closure takes the place of the last one of the log
Reversible_trail_replace(h, c) ==
    LET trail_time == h.clock IN
    IF trail_time # h.cell_clock[c]
    THEN push_on_trail([h EXCEPT !.cell_clock[c] = trail_time, !.trail = Front(@)],
                       [dst |-> c, val |-> h.value[c], at |-> trail_time, cp |-> h.cp])
    ELSE h

\* Reversible::trail (private)
Reversible_trail(h, c) ==
    LET trail_time == h.clock IN
    IF trail_time # h.cell_clock[c]
    THEN push_on_trail([h EXCEPT !.cell_clock[c] = trail_time],
                       [dst |-> c, val |-> h.value[c], at |-> trail_time, cp |-> h.cp])
    ELSE h

get_value(h, c) == h.value[c]

\* faulty variant: the write is recorded and made whatever the value
set_value_always(h, c, v) == [Reversible_trail(h, c) EXCEPT !.value[c] = v]

\* faulty variant: the value is stored before self.trail() is called, the
\* closure captures the new value
set_value_late(h, c, v) ==
    IF v # h.value[c]
    THEN Reversible_trail([h EXCEPT !.value[c] = v], c)
    ELSE h

set_value(h, c, v) ==
    IF v # h.value[c]
    THEN [Reversible_trail(h, c) EXCEPT !.value[c] = v]
    ELSE h

(* ------------------------------ history -------------------------------- *)
Last(s) == s[Len(s)]

\* the call just made: the method, the level it was called at, the closures it
\* executed (in the order of their execution); for a set_value, whether it
\* left the trail and the cells as they were; for a pop, whether it was called
\* with a checkpoint open and no push or pop made since that checkpoint's push
Done(name, h) ==
    [name   |-> name,
     lvl    |-> Len(limit),
     undone |-> h.undone,
     same   |-> name = "set_value" /\ [h EXCEPT !.undone = <<>>] = Heap,
     fresh  |-> name = "pop" /\ snap # <<>> /\ Last(snap).clk = clock]

\* what is remembered of a push: the cells and their values, the level, the
\* clock the push sets, the log, and (empty at first) the cells whose value
\* was changed by a set_value since
Snapshot == [cells |-> created, val |-> value, lvl |-> Len(limit), clk |-> clock + 1,
             log |-> trail, wrote |-> {}]

\* the identities of the closures a call executed
Ids(h) == {[dst |-> h.undone[i].dst, at |-> h.undone[i].at] : i \in 1..Len(h.undone)}

Zero == [c \in Cells |-> 0]

Store(h) ==
    /\ clock' = h.clock
    /\ trail' = h.trail
    /\ limit' = h.limit
    /\ cell_clock' = h.cell_clock
    /\ value' = h.value

(* ------------------------------ actions -------------------------------- *)
\* The fixture of the tests of reversible.rs: Trail::new(), then a Reversible
\* `A` constructed on the new trail (test_ok: with the value 0).  The other
\* cells are constructed later, by New.
Init ==
    /\ clock = 0
    /\ trail = <<>>
    /\ limit = <<>>
    /\ created = {"A"}
    /\ cell_clock = Zero
    /\ value = Zero
    /\ op = [name |-> "new", lvl |-> 0, undone |-> <<>>, same |-> FALSE, fresh |-> FALSE]
    /\ young = {"A"}
    /\ snap = <<>>
    /\ base = Zero
    /\ nwrites = Zero
    /\ ran = {}

New(c, initial) ==
    /\ c \notin created
    /\ Store(new(Heap, c, initial))
    /\ created' = created \cup {c}
    /\ op' = Done("new", Heap)
    /\ young' = young \cup {c}
    /\ base' = [base EXCEPT ![c] = initial]
    /\ nwrites' = [nwrites EXCEPT ![c] = 0]
    /\ UNCHANGED <<snap, ran>>

Push ==
    /\ clock < MaxClock
    /\ Len(limit) < MaxLevel
    /\ Store(push(Heap))
    /\ op' = Done("push", Heap)
    /\ snap' = Append(snap, Snapshot)
    /\ base' = value'
    /\ nwrites' = Zero
    /\ young' = {}
    /\ UNCHANGED <<created, ran>>

Pop ==
    /\ clock < MaxClock
    /\ LET h == pop(Heap) IN
        /\ Store(h)
        /\ op' = Done("pop", h)
    /\ snap' = IF snap = <<>> THEN snap ELSE Front(snap)
    /\ base' = value'
    /\ nwrites' = Zero
    /\ young' = {}
    /\ UNCHANGED <<created, ran>>

PopUntil(lvl) ==
    /\ clock + (IF Len(limit) > lvl THEN Len(limit) - lvl ELSE 0) <= MaxClock
    /\ LET h == pop_until(Heap, lvl) IN
        /\ Store(h)
        /\ op' = Done("pop_until", h)
    /\ snap' = SubSeq(snap, 1, Len(limit'))
    /\ base' = IF clock' # clock THEN value' ELSE base
    /\ nwrites' = IF clock' # clock THEN Zero ELSE nwrites
    /\ young' = IF clock' # clock THEN {} ELSE young
    /\ UNCHANGED <<created, ran>>

PopAll ==
    /\ clock + Len(limit) <= MaxClock
    /\ LET h == pop_all(Heap) IN
        /\ Store(h)
        /\ op' = Done("pop_all", h)
    /\ snap' = SubSeq(snap, 1, Len(limit'))
    /\ base' = IF clock' # clock THEN value' ELSE base
    /\ nwrites' = IF clock' # clock THEN Zero ELSE nwrites
    /\ young' = IF clock' # clock THEN {} ELSE young
    /\ UNCHANGED <<created, ran>>

GetValue(c) ==
    /\ c \in created
    /\ op' = Done("get_value", Heap)
    /\ UNCHANGED <<prog, young, snap, base, nwrites, ran>>

SetValue(c, v) ==
    /\ c \in created
    /\ LET h == set_value(Heap, c, v) IN
        /\ Len(h.trail) <= MaxTrail
        /\ Store(h)
        /\ op' = Done("set_value", h)
    /\ nwrites' = IF v # value[c]
                  THEN [nwrites EXCEPT ![c] = IF @ = 0 THEN 1 ELSE 2]
                  ELSE nwrites
    /\ snap' = IF v # value[c]
               THEN [k \in 1..Len(snap) |-> [snap[k] EXCEPT !.wrote = @ \cup {c}]]
               ELSE snap
    /\ UNCHANGED <<created, young, base, ran>>

Next ==
    \/ \E c \in Cells, initial \in Values : New(c, initial)
    \/ Push
    \/ Pop
    \/ \E lvl \in 0..MaxLevel : PopUntil(lvl)
    \/ PopAll
    \/ \E c \in Cells : GetValue(c)
    \/ \E c \in Cells, v \in Values : SetValue(c, v)

Spec == Init /\ [][Next]_vars

(* The same methods with another history: the set `ran` of the closures    *)
(* executed so far and the checkpoints `snap`; op, young, base and nwrites *)
(* are left as they are.                                                   *)
Ran(h) ==
    /\ Store(h)
    /\ ran' = ran \cup Ids(h)
    /\ UNCHANGED <<op, young, base, nwrites>>

OnceNew(c, initial) ==
    /\ c \notin created
    /\ Ran(new(Heap, c, initial))
    /\ created' = created \cup {c}
    /\ UNCHANGED snap

OncePush ==
    /\ clock < MaxClock
    /\ Len(limit) < MaxLevel
    /\ Ran(push(Heap))
    /\ snap' = Append(snap, Snapshot)
    /\ UNCHANGED created

OncePop ==
    /\ clock < MaxClock
    /\ Ran(pop(Heap))
    /\ snap' = SubSeq(snap, 1, Len(limit'))
    /\ UNCHANGED created

OncePopUntil(lvl) ==
    /\ clock + (IF Len(limit) > lvl THEN Len(limit) - lvl ELSE 0) <= MaxClock
    /\ Ran(pop_until(Heap, lvl))
    /\ snap' = SubSeq(snap, 1, Len(limit'))
    /\ UNCHANGED created

OncePopAll ==
    /\ clock + Len(limit) <= MaxClock
    /\ Ran(pop_all(Heap))
    /\ snap' = SubSeq(snap, 1, Len(limit'))
    /\ UNCHANGED created

OnceSetValue(c, v) ==
    /\ c \in created
    /\ Len(set_value(Heap, c, v).trail) <= MaxTrail
    /\ Ran(set_value(Heap, c, v))
    /\ UNCHANGED <<created, snap>>

NextOnce ==
    \/ \E c \in Cells, initial \in Values : OnceNew(c, initial)
    \/ OncePush
    \/ OncePop
    \/ \E lvl \in 0..MaxLevel : OncePopUntil(lvl)
    \/ OncePopAll
    \/ \E c \in Cells, v \in Values : OnceSetValue(c, v)

SpecOnce == Init /\ [][NextOnce]_vars

(* ------------------------------ claims --------------------------------- *)
Level == level(Heap)

\* the step is a call of the method `name`
Called(name) == op'.name = name

\* the cells a pop must give back their value: those that existed at the push
Restored(shot) == \A c \in shot.cells : value'[c] = shot.val[c]

\* the positions of the log that hold a closure of cell c
EntriesOf(c) == {i \in 1..Len(trail) : trail[i].dst = c}

Min(S) == CHOOSE x \in S : \A y \in S : x <= y

\* C1 (single-level round trip): when a checkpoint is popped with no push or
\* pop made since its push, every cell that existed at the push and was
\* written since has the value it had just before the push, and level() is
\* what it was just before the push.
SingleLevelRoundTrip ==
    [][(Called("pop") /\ Pop /\ snap # <<>> /\ Last(snap).clk = clock) =>
          /\ \A c \in Last(snap).cells :
                nwrites[c] >= 1 => value'[c] = Last(snap).val[c]
          /\ Level' = Last(snap).lvl]_vars

\* a pop has just closed such a checkpoint and undone a write
SingleLevelRoundTripWitness ==
    /\ op.name = "pop"
    /\ op.fresh
    /\ op.undone # <<>>

\* C2 (nested restore): the pop that closes a checkpoint, whatever writes,
\* pushes and pops were made while it was open, gives every cell that existed
\* at its push the value it had then, and closes that one checkpoint only.
NestedRestore ==
    [][(Called("pop") /\ Pop /\ limit # <<>>) =>
          /\ Restored(Last(snap))
          /\ Level' = Level - 1]_vars

\* a pop has just closed a checkpoint whose segment held two closures of the
\* same cell: an inner push/pop pair was completed between two writes to it
NestedRestoreWitness ==
    /\ op.name = "pop"
    /\ op.lvl >= 1
    /\ \E i, j \in 1..Len(op.undone) : i < j /\ op.undone[i].dst = op.undone[j].dst

\* C3 as claimed (idle pop safety): a pop at level 0 leaves the cell values,
\* the log and the level as they were, and advances the clock.
IdlePopNoOp ==
    [][(Called("pop") /\ Pop /\ limit = <<>>) =>
          /\ value' = value
          /\ trail' = trail
          /\ Level' = 0
          /\ clock' = clock + 1]_vars

\* C3 as amended: a pop at level 0 leaves the level at 0 and advances the
\* clock, but it empties the log: every cell with a closure in the log gets
\* the value of its oldest closure, and the values and the log are left as
\* they were only when the log was empty.
IdlePopDrains ==
    [][(Called("pop") /\ Pop /\ limit = <<>>) =>
          /\ Level' = 0
          /\ clock' = clock + 1
          /\ trail' = <<>>
          /\ \A c \in Cells :
                value'[c] = IF EntriesOf(c) = {} THEN value[c]
                            ELSE trail[Min(EntriesOf(c))].val
          /\ trail = <<>> => value' = value]_vars

\* a pop has just been made at level 0 and has executed closures
IdlePopDrainsWitness ==
    /\ op.name = "pop"
    /\ op.lvl = 0
    /\ op.undone # <<>>

\* the positions of the log that belong to open checkpoint k: from its
\* boundary to the next boundary, or to the end of the log for the innermost
Segment(k) ==
    (limit[k] + 1) .. (IF k < Len(limit) THEN limit[k + 1] ELSE Len(trail))

\* C4 as claimed: the segment of every open checkpoint holds at most one
\* closure per cell.
AtMostOnePerLevel ==
    \A k \in 1..Len(limit) : \A c \in Cells :
        Cardinality(Segment(k) \cap EntriesOf(c)) <= 1

\* C4 as amended: at most one closure per cell per clock value, that is no two
\* closures of one cell were pushed between the same two clock ticks; and the
\* segment of the innermost checkpoint holds at most one closure per cell as
\* long as no push or pop was made since that checkpoint's push.
AtMostOnePerClock ==
    /\ \A c \in Cells : \A i, j \in EntriesOf(c) : i < j => trail[i].at < trail[j].at
    /\ (snap # <<>> /\ Last(snap).clk = clock) =>
          \A c \in Cells : Cardinality(Segment(Len(limit)) \cap EntriesOf(c)) <= 1

\* one open checkpoint's segment holds two closures of the same cell
AtMostOnePerClockWitness ==
    \E k \in 1..Len(limit) : \E c \in Cells :
        Cardinality(Segment(k) \cap EntriesOf(c)) = 2

\* the closures of cell c pushed since the latest clock tick
Registered(c) == {i \in EntriesOf(c) : trail[i].at = clock}

\* C5 as claimed: inside a checkpoint, the value-changing writes made to one
\* cell since the latest push or pop have pushed exactly one closure, and it
\* holds the value the cell had before the first of them.
CoalesceOne ==
    \A c \in created :
        (Level >= 1 /\ nwrites[c] >= 1) =>
            /\ Cardinality(Registered(c)) = 1
            /\ \A i \in Registered(c) : trail[i].val = base[c]

\* C5 as amended: that holds of a cell constructed before the latest push or
\* pop; the writes to a cell constructed since have pushed no closure.
CoalesceOneUnlessYoung ==
    \A c \in created :
        (Level >= 1 /\ nwrites[c] >= 1) =>
            IF c \in young
            THEN Registered(c) = {}
            ELSE /\ Cardinality(Registered(c)) = 1
                 /\ \A i \in Registered(c) : trail[i].val = base[c]

\* inside a checkpoint, two or more value-changing writes to an older cell
\* have pushed one closure
CoalesceOneUnlessYoungWitness ==
    /\ Level >= 1
    /\ \E c \in created \ young :
          nwrites[c] = 2 /\ Cardinality(Registered(c)) = 1

\* C6 (multi-cell independence): when a checkpoint is popped with no push or
\* pop made since its push, any two cells that existed at the push both have
\* the value they had then, whatever the order of their closures in the log.
MultiCellIndependence ==
    [][(Called("pop") /\ Pop /\ snap # <<>> /\ Last(snap).clk = clock) =>
          \A a, b \in Last(snap).cells :
              a # b => /\ value'[a] = Last(snap).val[a]
                       /\ value'[b] = Last(snap).val[b]]_vars

\* a pop has just closed such a checkpoint and executed, in this order, the
\* closure of A and then the closure of B: B was written first
MultiCellIndependenceWitness ==
    /\ op.name = "pop"
    /\ op.fresh
    /\ Len(op.undone) = 2
    /\ op.undone[1].dst = "A"
    /\ op.undone[2].dst = "B"

NoOpWriteElision ==
    [][\A c \in created : \A v \in Values :
          (Called("set_value") /\ v = value[c] /\ SetValue(c, v)) =>
              /\ Len(trail') = Len(trail)
              /\ UNCHANGED <<trail, cell_clock, value, clock, limit>>
              /\ Level' = Level]_vars

\* such a set_value has just been made while the clock of every cell
\* differed from the clock of the trail: a recorded write would have pushed
\* a closure
NoOpWriteElisionWitness ==
    /\ op.name = "set_value"
    /\ op.same
    /\ \A c \in created : cell_clock[c] # clock

\* C9 (clock monotonicity): push and pop, a pop at level 0 included, advance
\* the clock by one; constructing a cell, get_value, set_value and a
\* pop_until that pops nothing leave it as it was; it never decreases.
ClockMonotone ==
    [][/\ (Called("push") /\ Push) => clock' = clock + 1
       /\ (Called("pop") /\ Pop) => clock' = clock + 1
       /\ \A c \in Cells : \A v \in Values :
             \/ Called("new") /\ New(c, v)
             \/ Called("get_value") /\ GetValue(c)
             \/ Called("set_value") /\ SetValue(c, v)
             => clock' = clock
       /\ \A lvl \in 0..MaxLevel :
             (Called("pop_until") /\ Level <= lvl /\ PopUntil(lvl)) => clock' = clock
       /\ clock' >= clock]_vars

\* a pop has just been made at level 0 with an empty log: it undid nothing,
\* and the clock has advanced
ClockMonotoneWitness ==
    /\ op.name = "pop"
    /\ op.lvl = 0
    /\ op.undone = <<>>
    /\ clock >= 2

PopUntilLevel ==
    [][\A n \in 0..MaxLevel :
          (Called("pop_until") /\ PopUntil(n)) =>
              /\ Level' = (IF Level < n THEN Level ELSE n)
              /\ Level > n =>
                    /\ clock' = clock + (Level - n)
                    /\ limit' = SubSeq(limit, 1, n)
                    /\ Restored(snap[n + 1])
                    /\ \A i, j \in 1..Len(op'.undone) :
                          i < j => op'.undone[i].cp >= op'.undone[j].cp
              /\ Level <= n => UNCHANGED prog]_vars

\* a pop_until called at level 2 has just closed both checkpoints and
\* executed a closure of each
PopUntilLevelWitness ==
    /\ op.name = "pop_until"
    /\ op.lvl = 2
    /\ Level = 0
    /\ Len(op.undone) = 2
    /\ op.undone[1].cp > op.undone[2].cp

Range(s) == {s[i] : i \in 1..Len(s)}

Id(e) == [dst |-> e.dst, at |-> e.at]

\* the checkpoints a step closes, named by the clock their push set
Closed == {snap[k].clk : k \in (Len(limit') + 1)..Len(limit)}

\* the closures the call that made h executed were in the log and have left
\* it, and none had been executed before or is executed twice by the call
FirstRun(h) ==
    /\ Cardinality(ran') = Cardinality(ran) + Len(h.undone)
    /\ \A i \in 1..Len(h.undone) :
          h.undone[i] \in Range(trail) /\ h.undone[i] \notin Range(trail')

\* the closures the call that made h executed were pushed while one of the
\* checkpoints the call closes was innermost
ByClosingPop(h) == \A i \in 1..Len(h.undone) : h.undone[i].cp \in Closed

\* ... or, by a call at level 0, while no checkpoint was open
ByClosingOrIdlePop(h) ==
    \A i \in 1..Len(h.undone) :
        h.undone[i].cp \in Closed \cup (IF limit = <<>> THEN {0} ELSE {})

\* C12 as claimed (one-shot restore actions): a closure is executed by the
\* pop that closes the checkpoint that was innermost when it was pushed, and
\* by no other.
OneShotByClosingPop ==
    [][clock' # clock =>
          /\ OncePop => ByClosingPop(pop(Heap))
          /\ \A n \in 0..MaxLevel : OncePopUntil(n) => ByClosingPop(pop_until(Heap, n))
          /\ OncePopAll => ByClosingPop(pop_all(Heap))]_vars

\* C12 as amended: a closure is executed at most once over any sequence of
\* calls: it leaves the log as it is executed and no closure of the log has
\* been executed; push, set_value and new execute none; and a closure is
\* executed only by the pop that closes the checkpoint that was innermost
\* when it was pushed or, if none was open then, by a pop called at level 0.
OneShot ==
    /\ [](\A i \in 1..Len(trail) : Id(trail[i]) \notin ran)
    /\ [][ /\ OncePop => FirstRun(pop(Heap)) /\ ByClosingOrIdlePop(pop(Heap))
           /\ \A n \in 0..MaxLevel :
                 OncePopUntil(n) => /\ FirstRun(pop_until(Heap, n))
                                    /\ ByClosingOrIdlePop(pop_until(Heap, n))
           /\ OncePopAll => FirstRun(pop_all(Heap)) /\ ByClosingOrIdlePop(pop_all(Heap))
           /\ \A c \in Cells : \A v \in Values :
                 (OncePush \/ OnceNew(c, v) \/ OnceSetValue(c, v)) => ran' = ran ]_vars

\* a closure of a cell has been executed and the log holds a later closure of
\* the same cell
OneShotWitness ==
    \E e \in ran : \E i \in 1..Len(trail) :
        trail[i].dst = e.dst /\ trail[i].at > e.at

RECURSIVE Reverse(_)
Reverse(s) == IF s = <<>> THEN <<>> ELSE Append(Reverse(Tail(s)), Head(s))

\* C13 (LIFO undo down to the boundary): a pop of an open checkpoint executes
\* exactly the closures pushed since the matching push, latest first; the log
\* is left with the length and contents it had at that push, and the entries
\* below the boundary are neither executed nor removed.
LifoToBoundary ==
    [][(Called("pop") /\ limit # <<>> /\ Pop) =>
          LET sz == Last(limit) IN
          /\ op'.undone = Reverse(SubSeq(trail, sz + 1, Len(trail)))
          /\ \A i \in 1..Len(trail) : i > sz <=> trail[i].at >= Last(snap).clk
          /\ trail' = SubSeq(trail, 1, sz)
          /\ trail' = Last(snap).log]_vars

\* a pop of the inner of two checkpoints has executed a closure and left one
\* below the boundary
LifoToBoundaryWitness ==
    /\ op.name = "pop" /\ op.lvl = 2 /\ Len(limit) = 1
    /\ op.undone # <<>> /\ trail # <<>>
    /\ Last(trail).at < op.undone[1].at

\* the positions of the log above the boundary of checkpoint k
Above(k) == (limit[k] + 1) .. Len(trail)

\* C14 as claimed (restore-action existence): for every cell and every open
\* checkpoint, the log holds a closure of the cell above the checkpoint's
\* boundary if and only if a set_value has changed the cell's value since the
\* checkpoint's push.
RestoreIffChanged ==
    \A k \in 1..Len(limit) : \A c \in created :
        (Above(k) \cap EntriesOf(c) # {}) <=> (c \in snap[k].wrote)

\* C14 as amended: a closure of the cell above the checkpoint's boundary
\* implies that a set_value has changed the cell's value since the
\* checkpoint's push; and as long as no push or pop has been made since the
\* push of the innermost checkpoint, a cell that existed at that push and
\* whose value a set_value has changed since has a closure in the
\* checkpoint's segment.
RestoreOnlyIfChanged ==
    /\ \A k \in 1..Len(limit) : \A c \in created :
          (Above(k) \cap EntriesOf(c) # {}) => (c \in snap[k].wrote)
    /\ (limit # <<>> /\ Last(snap).clk = clock) =>
          \A c \in Last(snap).cells :
              (c \in Last(snap).wrote) =>
                  Segment(Len(limit)) \cap EntriesOf(c) # {}

\* two checkpoints are open, a cell has a closure in the inner one's segment
\* and none in the outer one's, and the other cell, written in the outer one,
\* has its closure there
RestoreOnlyIfChangedWitness ==
    /\ Len(limit) = 2 /\ Last(snap).clk = clock
    /\ \E c \in Last(snap).cells : \E d \in created \ {c} :
          /\ c \in Last(snap).wrote
          /\ Segment(2) \cap EntriesOf(c) # {}
          /\ Segment(1) \cap EntriesOf(c) = {}
          /\ Segment(1) \cap EntriesOf(d) # {}

\* C15 (lazy re-registration after a clock advance): a value-changing
\* set_value(v) on a cell whose clock differs from the trail's appends exactly
\* one closure, which holds the cell's value before the write, sets the cell's
\* clock to the trail's and stores v; on a cell whose clock is the trail's it
\* stores v and appends nothing. A cell that existed at the latest push or
\* pop and has not been changed since has a clock that differs.
LazyReregistration ==
    /\ [](\A c \in created \ young : nwrites[c] = 0 => cell_clock[c] # clock)
    /\ [][\A c \in Cells : \A v \in Values :
             (Called("set_value") /\ SetValue(c, v) /\ v # value[c]) =>
                 /\ value' = [value EXCEPT ![c] = v]
                 /\ cell_clock' = [cell_clock EXCEPT ![c] = clock]
                 /\ IF cell_clock[c] # clock
                    THEN /\ Len(trail') = Len(trail) + 1
                         /\ SubSeq(trail', 1, Len(trail)) = trail
                         /\ Last(trail').dst = c
                         /\ Last(trail').val = value[c]
                    ELSE trail' = trail]_vars

\* at level 0, after a pop, a cell has been changed twice by set_value: the
\* first write pushed a closure, the second (the call just made) none
LazyReregistrationWitness ==
    /\ op.name = "set_value" /\ ~op.same /\ Level = 0 /\ clock >= 1
    /\ \E c \in created \ young :
          /\ nwrites[c] = 2
          /\ Cardinality(Registered(c)) = 1
          /\ cell_clock[c] = clock

\* C16 (boundary stack well-formedness): the boundaries are non-decreasing
\* from the bottom of the stack to its top and none exceeds the length of the
\* log; push() appends the length of the log as the new top boundary, keeps
\* the boundaries below it, and leaves the log and the cells' values as they
\* were.
BoundaryStack ==
    /\ [](\A k \in 1..Len(limit) :
             /\ limit[k] <= Len(trail)
             /\ k < Len(limit) => limit[k] <= limit[k + 1])
    /\ [][(Called("push") /\ Push) =>
             /\ limit' = Append(limit, Len(trail))
             /\ trail' = trail
             /\ value' = value]_vars

\* a push has just recorded a boundary above the one below it, over a log
\* that holds a closure
BoundaryStackWitness ==
    /\ op.name = "push" /\ Len(limit) = 2
    /\ limit[1] < limit[2] /\ limit[2] = Len(trail)

\* C17 (frame of a write): set_value(v) on a cell leaves the value and the
\* clock of every other cell, and the clock, the level and the boundaries of
\* the trail, as they were; the log keeps its entries in their order and gets
\* at most one more; the cell's value is then v, which is what the call
\* returns. get_value changes nothing.
WriteFrame ==
    [][ /\ \A c \in Cells : \A v \in Values :
              (Called("set_value") /\ SetValue(c, v)) =>
                  /\ \A d \in Cells \ {c} :
                        value'[d] = value[d] /\ cell_clock'[d] = cell_clock[d]
                  /\ clock' = clock /\ limit' = limit /\ Level' = Level
                  /\ Len(trail') \in {Len(trail), Len(trail) + 1}
                  /\ SubSeq(trail', 1, Len(trail)) = trail
                  /\ value'[c] = v
                  /\ get_value(set_value(Heap, c, v), c) = v
        /\ \A c \in Cells :
              (Called("get_value") /\ GetValue(c)) => UNCHANGED prog ]_vars

\* a set_value has pushed a closure of one cell on top of a closure of the
\* other cell, whose value differs from the written cell's
WriteFrameWitness ==
    /\ op.name = "set_value" /\ ~op.same /\ Len(trail) = 2
    /\ trail[1].dst # trail[2].dst
    /\ trail[2].at = clock /\ trail[1].at < clock
    /\ value[trail[1].dst] # value[trail[2].dst]

\* C18 (creation-epoch writes are unrecorded): a cell is constructed with the
\* clock of the trail, and a set_value on it before the next push or pop
\* stores the value and pushes no closure; so a pop, pop_until or pop_all
\* leaves every cell constructed since the latest push or pop with the value
\* it has, written or not, and the log of a new trail stays empty under the
\* writes made to such a cell at level 0.
CreationEpochUnrecorded ==
    /\ [](\A c \in young : cell_clock[c] = clock /\ Registered(c) = {})
    /\ [](clock = 0 => trail = <<>>)
    /\ [][ /\ \A c \in young : \A v \in Values :
                  (Called("set_value") /\ SetValue(c, v)) =>
                      trail' = trail /\ value'[c] = v
           /\ clock' # clock => \A c \in young : value'[c] = value[c] ]_vars

\* a checkpoint is open and the log holds a closure of a cell in its segment;
\* the other cell, constructed in the checkpoint since the latest push or pop,
\* has just been written a value that differs from its initial one, and the
\* log holds no closure of it
CreationEpochUnrecordedWitness ==
    /\ op.name = "set_value" /\ ~op.same /\ Level >= 1
    /\ \E c \in young : \E d \in created \ young :
          /\ nwrites[c] >= 1 /\ value[c] # base[c]
          /\ EntriesOf(c) = {}
          /\ Segment(Len(limit)) \cap EntriesOf(d) # {}

\* C19 (pop at level 0 drains the log): a pop() called with no checkpoint open
\* takes 0 as the boundary: it executes every closure of the log, latest
\* first, and leaves the log empty; these closures were pushed by writes made
\* with no checkpoint open, after the clock had advanced.
DrainAtLevelZero ==
    [][(Called("pop") /\ limit = <<>> /\ Pop) =>
          /\ op'.undone = Reverse(trail)
          /\ trail' = <<>>
          /\ \A i \in 1..Len(trail) : trail[i].cp = 0 /\ trail[i].at >= 1]_vars

\* a pop called at level 0 has executed two closures, pushed at two clocks,
\* the later one first
DrainAtLevelZeroWitness ==
    /\ op.name = "pop" /\ op.lvl = 0 /\ trail = <<>>
    /\ Len(op.undone) = 2 /\ op.undone[1].at > op.undone[2].at

====
